---------------------------- MODULE Spec2Model ----------------------------
(***************************************************************************)
(* Model of the stream-buffering adapters of sonance.js.                   *)
(*                                                                         *)
(*   AudioInputStream  (src/src/audio-input-stream.ts; AudioReadStream in  *)
(*   src/src/audio-read-stream.ts has the same callback and methods): the  *)
(*   Capture Adapter.  A realtime callback receives one frame per period   *)
(*   and either queues it in _buffer or hands a frame to Readable.push.    *)
(*                                                                         *)
(*   AudioWriteStream  (src/src/audio-write-stream.ts): the Playback       *)
(*   Adapter.  Written bytes are merged into _buffer and the realtime      *)
(*   callback slices _chunkSize bytes off its head.                        *)
(*                                                                         *)
(* Frames are numbered in the order the Audio Engine hands them to the     *)
(* callback (frame k is the input of the k-th callback); written bytes are *)
(* numbered in the order they are written.  Null (0) is the null chunk.    *)
(***************************************************************************)
EXTENDS Integers, Sequences, FiniteSets, TLC

\* ------------------------------------------------------------------ bounds
\* Callbacks whose input frame can be queued or delivered.
MaxFrames == 4
\* Null sentinels kept in the Capture Queue (see Kept).
MaxSentinels == 2
\* push(null) calls recorded in the delivery history.
MaxNulls == 2
\* Callbacks still in flight when the engine stream is aborted or closed.
MaxInflight == 1
\* Frames that arrive in a run that records the engine commands.
TracedFrames == 2
\* Frames that arrive in a run in which the engine reports errors.
ReportFrames == 1

\* Bytes handed to write()/writev() in one run.
MaxBytes == 20
\* Calls of AudioWriteStream._destroy in one run.
MaxDestroyCalls == 2

Null == 0

Min(a, b) == IF a < b THEN a ELSE b

Range(s) == {s[i] : i \in 1..Len(s)}

\* status argument of the realtime callback
StreamStatus == {"ok", "overflow"}

\* The run records, step by step, the calls each operation of the
\* AudioInputStream makes (issued, destroyCb).  Where it does not, both stay
\* empty.
VARIABLE traced

\* The run has the engine report errors to the error callbacks.
VARIABLE reported

\* A handler of the consumer has called back into the adapter from inside a
\* realtime callback of this run.
VARIABLE reentered

modes == <<traced, reported, reentered>>

VARIABLES
  \* ---- AudioInputStream fields
  buffer,             \* _buffer: (Uint8Array | null)[]
  shouldBuffer,       \* _shouldBuffer
  shouldStop,         \* _shouldStop
  shouldClearBuffer,  \* _shouldClearBuffer
  closed,             \* Readable.closed
  \* ---- the RtAudio stream of the AudioInputStream
  streamOpen,         \* isStreamOpen()
  streamRunning,      \* isStreamRunning()
  inflight,           \* callbacks already scheduled when the stream stopped
  \* ---- what the consumer and the engine have seen (history)
  received,           \* number of frames passed to the callback so far
  delivered,          \* every argument of Readable.push, in call order
  overflowRaised,     \* the last step emitted 'api:overflow'
  satCount,           \* callbacks run with _shouldBuffer set since _buffer was last empty
  pendingReady,       \* frame the last callback queued although _shouldBuffer was false
  saturated,          \* push answered false for the last frame handed to it, and
                      \* neither _read() nor resume() was called since (recorded
                      \* where the run records the engine commands)
  stopQueue,          \* _buffer at the first stopAudio()
  flushedSinceStop,   \* resumeAudio() emptied _buffer after stopAudio()
  pausedAt,           \* frames received when pauseAudio() last aborted the stream
  staleUpTo,          \* frames 1..staleUpTo were received before a pauseAudio()
                      \* that a resumeAudio() has since followed
  issued,             \* engine commands the last step issued, in call order
  destroyCb           \* errors the last step invoked the callback of _destroy with

VARIABLES
  \* ---- AudioWriteStream fields
  chunkSize,          \* _chunkSize
  wBuffer,            \* _buffer: Uint8Array, as the sequence of its bytes
  shouldClose,        \* _shouldClose
  destroyCallback,    \* _destroyCallback: "noop" or the callback of _destroy
  destroyError,       \* _destroyError
  \* ---- the RtAudio stream of the AudioWriteStream
  wOpen,              \* isStreamOpen()
  wRunning,           \* isStreamRunning()
  wInflight,          \* callbacks already scheduled when the stream was closed
  \* ---- what the consumer and the engine have seen (history)
  written,            \* number of bytes handed to _write/_writev so far
  output,             \* every byte copied to an engine output buffer, in order
  lenAtWrite,         \* length of _buffer after the last _write/_writev
  taken,              \* bytes taken by each callback since then
  processedRaised,    \* the last step emitted 'api:processed'
  underflowRaised,    \* the last step emitted 'api:underflow'
  closeCalls,         \* closeStream() commands issued
  destroyCalls,       \* _destroy calls
  destroyDone,        \* errors the callbacks of _destroy were invoked with
  lastWrite,          \* outcome of the last _write/_writev/_final
  params,             \* the parameters the constructor was given
  dropped,            \* bytes of type-checked chunks written while not running
  owed,               \* bytes that were in _buffer at the last _destroy/_final on
                      \* an open stream and have not been copied to output since
  owedChunks          \* the same for the full chunks that were in _buffer at the
                      \* last _destroy on an open stream

VARIABLES
  \* ---- construction and error reports of the AudioInputStream
  inputParams,        \* the parameters the constructor was given
  highWaterMark,      \* highWaterMark the constructor hands to Readable
  warnings,           \* what showWarnings of its RtAudio was last called with
  errorRaised,        \* 'error' events the last step emitted
  \* ---- construction and error reports of the AudioWriteStream
  wHighWaterMark,     \* highWaterMark the constructor hands to Writable
  wWarnings,          \* what showWarnings of its RtAudio was last called with
  wErrorRaised        \* 'error' events the last step emitted

capture == <<buffer, shouldBuffer, shouldStop, shouldClearBuffer, closed,
             streamOpen, streamRunning, inflight,
             received, delivered, overflowRaised, satCount, pendingReady,
             stopQueue, flushedSinceStop, pausedAt, staleUpTo,
             issued, destroyCb, saturated,
             inputParams, highWaterMark, warnings, errorRaised>>

wfields == <<chunkSize, wBuffer, shouldClose, destroyCallback, destroyError>>
wengine == <<wOpen, wRunning, wInflight>>
whistory == <<written, output, lenAtWrite, taken, processedRaised, underflowRaised,
              closeCalls, destroyCalls, destroyDone, lastWrite>>
wmarks == <<params, dropped, owed, owedChunks>>
wreports == <<wHighWaterMark, wWarnings, wErrorRaised>>

playback == <<wfields, wengine, whistory, wmarks, wreports>>

vars == <<modes, capture, playback>>

fields == <<buffer, shouldBuffer, shouldStop, shouldClearBuffer, closed>>
engine == <<streamOpen, streamRunning, inflight>>
history == <<received, delivered, satCount, pendingReady,
             stopQueue, flushedSinceStop, pausedAt, staleUpTo>>

NullCount(s) == Cardinality({i \in 1..Len(s) : s[i] = Null})

\* Errors handed to _destroy ("null": no error).
Errors == {"null", "E1"}

\* The calls of a step, as the run records them.
Log(calls) == IF traced THEN calls ELSE <<>>

\* A callback that restarts the stream.
NoCalls_Restart == issued' = Log(<<"startStream">>) /\ destroyCb' = <<>>

\* The step calls neither the engine nor the callback of _destroy.
NoCalls == issued' = <<>> /\ destroyCb' = <<>>

\* The step calls neither and emits no 'api:overflow'.
NoEffects == NoCalls /\ overflowRaised' = FALSE

\* The step of the AudioInputStream emits no 'error' and leaves showWarnings
\* as it was.
NoReport ==
  /\ errorRaised' = 0
  /\ UNCHANGED <<inputParams, highWaterMark, warnings>>

\* The same for a step of the AudioWriteStream.
WriteNoReport ==
  /\ wErrorRaised' = 0
  /\ UNCHANGED <<wHighWaterMark, wWarnings>>

\* formatToByteCount answering the width in bits instead of bytes.
formatToByteCount_Bits(format) ==
  CASE format = "RTAUDIO_SINT8" -> 8
    [] format = "RTAUDIO_SINT16" -> 16
    [] format = "RTAUDIO_SINT32" -> 32
    [] format = "RTAUDIO_FLOAT32" -> 32
    [] format = "RTAUDIO_FLOAT64" -> 64

\* formatToByteCount(format)
formatToByteCount(format) ==
  CASE format = "RTAUDIO_SINT8" -> 1
    [] format = "RTAUDIO_SINT16" -> 2
    [] format = "RTAUDIO_SINT32" -> 4
    [] format = "RTAUDIO_FLOAT32" -> 4
    [] format = "RTAUDIO_FLOAT64" -> 8

RtAudioFormat ==
  {"RTAUDIO_SINT8", "RTAUDIO_SINT16", "RTAUDIO_SINT32", "RTAUDIO_FLOAT32",
   "RTAUDIO_FLOAT64"}

\* params.format || RtAudioFormat.RTAUDIO_SINT16 ("none": format omitted)
FormatOrDefault(format) == IF format = "none" THEN "RTAUDIO_SINT16" ELSE format

\* chunkSize as the AudioWriteStream constructor computes it
ChunkSizeOf(bufferFrames, channels, format) ==
  bufferFrames * channels * formatToByteCount(FormatOrDefault(format))

\* params.highWaterMark when the parameters have none.
Omitted == -1

\* params.highWaterMark || chunkSize
HighWaterMarkOrChunk(hwm, chunk) == IF hwm = Omitted \/ hwm = 0 THEN chunk ELSE hwm

\* The parameters of the adapters built beside the one a run uses: frame
\* size 4, 1 channel, format and highWaterMark omitted.
PlainParams ==
  [bufferFrames |-> 4, channels |-> 1, format |-> "none", highWaterMark |-> Omitted]

\* ------------------------------------------------------- AudioInputStream
\* State after the constructor, for the given parameters: fields set, stream
\* opened and started.
InputInitOf(p) ==
  /\ inputParams = p
  /\ highWaterMark = ChunkSizeOf(p.bufferFrames, p.channels, p.format)
  /\ warnings = FALSE
  /\ errorRaised = 0
  /\ buffer = <<>>
  /\ shouldBuffer = TRUE
  /\ shouldStop = FALSE
  /\ shouldClearBuffer = FALSE
  /\ closed = FALSE
  /\ streamOpen = TRUE
  /\ streamRunning = TRUE
  /\ inflight = 0
  /\ received = 0
  /\ delivered = <<>>
  /\ overflowRaised = FALSE
  /\ satCount = 0
  /\ pendingReady = 0
  /\ saturated = FALSE
  /\ stopQueue = <<>>
  /\ flushedSinceStop = FALSE
  /\ pausedAt = 0
  /\ staleUpTo = 0
  /\ issued = Log(<<"openStream", "startStream">>)
  /\ destroyCb = <<>>

InputInit == InputInitOf(PlainParams)

\* State after the AudioWriteStream constructor, for the given parameters.
WriteInitOf(p) ==
  /\ chunkSize = ChunkSizeOf(p.bufferFrames, p.channels, p.format)
  /\ wHighWaterMark =
       HighWaterMarkOrChunk(p.highWaterMark, ChunkSizeOf(p.bufferFrames, p.channels, p.format))
  /\ wWarnings = FALSE
  /\ wErrorRaised = 0
  /\ shouldClose = FALSE
  /\ destroyCallback = "noop"
  /\ destroyError = "null"
  /\ wBuffer = <<>>
  /\ wOpen = TRUE
  /\ wRunning = TRUE
  /\ wInflight = 0
  /\ written = 0
  /\ output = <<>>
  /\ lenAtWrite = 0
  /\ taken = <<>>
  /\ processedRaised = FALSE
  /\ underflowRaised = FALSE
  /\ closeCalls = 0
  /\ destroyCalls = 0
  /\ destroyDone = <<>>
  /\ lastWrite = "none"
  /\ params = p
  /\ dropped = {}
  /\ owed = <<>>
  /\ owedChunks = <<>>

\* The same with highWaterMark omitted.
WriteInitWith(bufferFrames, channels, format) ==
  WriteInitOf([bufferFrames |-> bufferFrames, channels |-> channels,
               format |-> format, highWaterMark |-> Omitted])

\* One AudioInputStream; the AudioWriteStream beside it is left as built
\* (frame size 4, 1 channel, format omitted).
Init == traced = FALSE /\ reported = FALSE /\ reentered = FALSE /\ InputInit /\ WriteInitWith(4, 1, "none")
\* Stopping without the terminal null on an empty queue.
Stopping_NoEnd(buf, sb, ok) ==
  IF buf = <<>>
  THEN [buffer |-> buf, pushed |-> <<>>, shouldBuffer |-> sb]
  ELSE IF sb
       THEN [buffer |-> Append(buf, Null), pushed |-> <<>>, shouldBuffer |-> sb]
       ELSE [buffer |-> Tail(buf), pushed |-> <<Head(buf)>>,
             shouldBuffer |-> IF ok THEN sb ELSE TRUE]

\* Stopping without the check that the queue is empty: a saturated consumer
\* is handed null at once.
Stopping_EarlyEnd(buf, sb, ok) ==
  IF sb \/ buf = <<>>
  THEN [buffer |-> buf, pushed |-> <<Null>>, shouldBuffer |-> sb]
  ELSE [buffer |-> Tail(buf), pushed |-> <<Head(buf)>>,
        shouldBuffer |-> IF ok THEN sb ELSE TRUE]

\* Stopping with the sentinel put at the head of the queue (unshift for
\* push).
Stopping_SentinelFirst(buf, sb, ok) ==
  IF sb
  THEN IF Len(buf) = 0
       THEN [buffer |-> buf, pushed |-> <<Null>>, shouldBuffer |-> sb]
       ELSE [buffer |-> <<Null>> \o buf, pushed |-> <<>>, shouldBuffer |-> sb]
  ELSE IF buf = <<>>
       THEN [buffer |-> buf, pushed |-> <<Null>>, shouldBuffer |-> sb]
       ELSE [buffer |-> Tail(buf), pushed |-> <<Head(buf)>>,
             shouldBuffer |-> IF ok THEN sb ELSE TRUE]

\* The stopping branch of the callback.  buf is _buffer, sb is _shouldBuffer,
\* ok is the value Readable.push returns for the head it is handed.
\* Result: the new _buffer, the arguments of push, the new _shouldBuffer.
Stopping(buf, sb, ok) ==
  IF sb
  THEN IF Len(buf) = 0
       THEN [buffer |-> buf, pushed |-> <<Null>>, shouldBuffer |-> sb]
       ELSE [buffer |-> Append(buf, Null), pushed |-> <<>>, shouldBuffer |-> sb]
  ELSE IF buf = <<>>
       THEN [buffer |-> buf, pushed |-> <<Null>>, shouldBuffer |-> sb]
       ELSE [buffer |-> Tail(buf), pushed |-> <<Head(buf)>>,
             shouldBuffer |-> IF ok THEN sb ELSE TRUE]

\* Pass-through that hands a ready consumer the new frame although older
\* frames are queued.
PassThrough_Bypass(buf, sb, input, ok) ==
  IF sb
  THEN [buffer |-> Append(buf, input), pushed |-> <<>>, shouldBuffer |-> sb]
  ELSE [buffer |-> buf, pushed |-> <<input>>,
        shouldBuffer |-> IF ok THEN sb ELSE TRUE]

\* Pass-through that reads the queue head without removing it.
PassThrough_NoShift(buf, sb, input, ok) ==
  IF sb
  THEN [buffer |-> Append(buf, input), pushed |-> <<>>, shouldBuffer |-> sb]
  ELSE IF buf = <<>>
       THEN [buffer |-> buf, pushed |-> <<input>>,
             shouldBuffer |-> IF ok THEN sb ELSE TRUE]
       ELSE [buffer |-> Append(buf, input), pushed |-> <<Head(buf)>>,
             shouldBuffer |-> IF ok THEN sb ELSE TRUE]

\* Pass-through that queues again a frame push has answered false for.
PassThrough_Requeue(buf, sb, input, ok) ==
  IF sb
  THEN [buffer |-> Append(buf, input), pushed |-> <<>>, shouldBuffer |-> sb]
  ELSE IF buf = <<>>
       THEN [buffer |-> IF ok THEN buf ELSE <<input>>, pushed |-> <<input>>,
             shouldBuffer |-> IF ok THEN sb ELSE TRUE]
       ELSE [buffer |-> IF ok THEN Append(Tail(buf), input) ELSE Append(buf, input),
             pushed |-> <<Head(buf)>>,
             shouldBuffer |-> IF ok THEN sb ELSE TRUE]

\* Pass-through that hands the frame to a saturated consumer when nothing
\* is queued.
PassThrough_PushSaturated(buf, sb, input, ok) ==
  IF sb /\ buf # <<>>
  THEN [buffer |-> Append(buf, input), pushed |-> <<>>, shouldBuffer |-> sb]
  ELSE IF buf = <<>>
       THEN [buffer |-> buf, pushed |-> <<input>>,
             shouldBuffer |-> IF ok THEN sb ELSE TRUE]
       ELSE [buffer |-> Append(Tail(buf), input), pushed |-> <<Head(buf)>>,
             shouldBuffer |-> IF ok THEN sb ELSE TRUE]

\* Pass-through that takes the queue's last frame (pop) instead of its head
\* (shift).
PassThrough_Pop(buf, sb, input, ok) ==
  IF sb
  THEN [buffer |-> Append(buf, input), pushed |-> <<>>, shouldBuffer |-> sb]
  ELSE IF buf = <<>>
       THEN [buffer |-> buf, pushed |-> <<input>>,
             shouldBuffer |-> IF ok THEN sb ELSE TRUE]
       ELSE [buffer |-> Append(SubSeq(buf, 1, Len(buf) - 1), input),
             pushed |-> <<buf[Len(buf)]>>,
             shouldBuffer |-> IF ok THEN sb ELSE TRUE]

\* The pass-through branch of the callback, for the frame input.
PassThrough(buf, sb, input, ok) ==
  IF sb
  THEN [buffer |-> Append(buf, input), pushed |-> <<>>, shouldBuffer |-> sb]
  ELSE IF buf = <<>>
       THEN [buffer |-> buf, pushed |-> <<input>>,
             shouldBuffer |-> IF ok THEN sb ELSE TRUE]
       ELSE [buffer |-> Append(Tail(buf), input), pushed |-> <<Head(buf)>>,
             shouldBuffer |-> IF ok THEN sb ELSE TRUE]

\* The callback that takes the stopping branch only when the consumer is
\* ready, and goes on queuing frames while it is not.
Handle_StopWhenReady(buf, sb, ss, input, ok) ==
  IF ss /\ ~sb THEN Stopping(buf, sb, ok) ELSE PassThrough(buf, sb, input, ok)

\* The branch of the callback that handles the frame: the callback has
\* passed the _shouldClearBuffer and closed checks.
Handle(buf, sb, ss, input, ok) ==
  IF ss THEN Stopping(buf, sb, ok) ELSE PassThrough(buf, sb, input, ok)

\* The frame the next callback is handed.  Frames beyond MaxFrames share one
\* number; the guard of Callback lets them arrive only where the code drops
\* its input.
NextFrame == Min(received + 1, MaxFrames + 1)

\* The callback ignores its input: clearing step, closed stream or stopping.
DropsInput == shouldClearBuffer \/ closed \/ shouldStop

\* The frames a run stores: fewer where the engine commands are recorded.
FrameBound ==
  IF reported THEN ReportFrames ELSE IF traced THEN TracedFrames ELSE MaxFrames

\* The callback is modelled while the frame it could store is within
\* MaxFrames and the push(null) calls it makes within MaxNulls.
CallbackWithinBounds ==
  /\ DropsInput \/ received < FrameBound
  /\ (~shouldClearBuffer /\ ~closed /\ shouldStop) =>
        NullCount(delivered) + NullCount(Stopping(buffer, shouldBuffer, TRUE).pushed)
           <= MaxNulls

\* The queue as the model keeps it.  While the consumer does not pull, every
\* callback of the stopping branch appends one more null to _buffer, without
\* end; the model keeps the first MaxSentinels of them and drops a further
\* one, which would sit behind a null at the tail.
Kept(q) == IF NullCount(q) > MaxSentinels THEN SubSeq(q, 1, Len(q) - 1) ELSE q

\* satCount counts up to the longest queue the model keeps.
CountUp(n) == Min(n + 1, MaxFrames + MaxSentinels)

\* A callback that returns once it has emitted 'api:overflow'.
Callback_OverflowReturns(ok, status) ==
  /\ streamRunning \/ inflight > 0
  /\ CallbackWithinBounds
  /\ inflight' = IF streamRunning THEN inflight ELSE inflight - 1
  /\ UNCHANGED <<streamOpen, streamRunning, shouldStop, closed>>
  /\ received' = NextFrame
  /\ UNCHANGED <<stopQueue, flushedSinceStop, pausedAt, staleUpTo>>
  /\ NoCalls
  /\ NoReport
  /\ UNCHANGED <<modes, playback>>
  /\ IF shouldClearBuffer
     THEN /\ shouldClearBuffer' = FALSE
          /\ buffer' = <<>>
          /\ UNCHANGED <<shouldBuffer, delivered>>
          /\ overflowRaised' = FALSE
          /\ satCount' = 0
          /\ pendingReady' = 0
     ELSE IF closed
     THEN /\ UNCHANGED <<shouldClearBuffer, buffer, shouldBuffer, delivered>>
          /\ overflowRaised' = FALSE
          /\ satCount' = IF buffer = <<>> THEN 0
                         ELSE IF shouldBuffer THEN CountUp(satCount) ELSE satCount
          /\ pendingReady' = 0
     ELSE IF status = "overflow"
     THEN /\ UNCHANGED <<shouldClearBuffer, buffer, shouldBuffer, delivered>>
          /\ overflowRaised' = TRUE
          /\ UNCHANGED <<satCount, pendingReady>>
     ELSE LET r == Handle(buffer, shouldBuffer, shouldStop, NextFrame, ok) IN
          /\ UNCHANGED shouldClearBuffer
          /\ overflowRaised' = (status = "overflow")
          /\ buffer' = Kept(r.buffer)
          /\ shouldBuffer' = r.shouldBuffer
          /\ delivered' = delivered \o r.pushed
          /\ satCount' = IF r.buffer = <<>> THEN 0
                         ELSE IF shouldBuffer THEN CountUp(satCount) ELSE satCount
          /\ pendingReady' = IF ~shouldStop /\ ~shouldBuffer /\ buffer # <<>>
                             THEN NextFrame ELSE 0
  /\ saturated' = IF NullCount(delivered') - NullCount(delivered) < Len(delivered') - Len(delivered)
                  THEN traced /\ ~ok ELSE saturated

\* The realtime callback registered with openStream.  ok is what
\* Readable.push answers (true: more may be pushed), status the engine's
\* status for this invocation.
Callback(ok, status) ==
  /\ streamRunning \/ inflight > 0
  /\ CallbackWithinBounds
  /\ inflight' = IF streamRunning THEN inflight ELSE inflight - 1
  /\ UNCHANGED <<streamOpen, streamRunning, shouldStop, closed>>
  /\ received' = NextFrame
  /\ UNCHANGED <<stopQueue, flushedSinceStop, pausedAt, staleUpTo>>
  /\ NoCalls
  /\ NoReport
  /\ UNCHANGED <<modes, playback>>
  /\ IF shouldClearBuffer
     THEN /\ shouldClearBuffer' = FALSE
          /\ buffer' = <<>>
          /\ UNCHANGED <<shouldBuffer, delivered>>
          /\ overflowRaised' = FALSE
          /\ satCount' = 0
          /\ pendingReady' = 0
     ELSE IF closed
     THEN /\ UNCHANGED <<shouldClearBuffer, buffer, shouldBuffer, delivered>>
          /\ overflowRaised' = FALSE
          /\ satCount' = IF buffer = <<>> THEN 0
                         ELSE IF shouldBuffer THEN CountUp(satCount) ELSE satCount
          /\ pendingReady' = 0
     ELSE LET r == Handle(buffer, shouldBuffer, shouldStop, NextFrame, ok) IN
          /\ UNCHANGED shouldClearBuffer
          /\ overflowRaised' = (status = "overflow")
          /\ buffer' = Kept(r.buffer)
          /\ shouldBuffer' = r.shouldBuffer
          /\ delivered' = delivered \o r.pushed
          /\ satCount' = IF r.buffer = <<>> THEN 0
                         ELSE IF shouldBuffer THEN CountUp(satCount) ELSE satCount
          /\ pendingReady' = IF ~shouldStop /\ ~shouldBuffer /\ buffer # <<>>
                             THEN NextFrame ELSE 0
  /\ saturated' = IF NullCount(delivered') - NullCount(delivered) < Len(delivered') - Len(delivered)
                  THEN traced /\ ~ok ELSE saturated

\* stopAudio() that also aborts the engine stream.
stopAudio_Abort ==
  /\ shouldStop' = TRUE
  /\ stopQueue' = IF shouldStop THEN stopQueue ELSE buffer
  /\ UNCHANGED <<buffer, shouldBuffer, shouldClearBuffer, closed>>
  /\ streamRunning' = FALSE
  /\ UNCHANGED <<streamOpen, inflight>>
  /\ UNCHANGED <<received, delivered, satCount, pendingReady,
                 flushedSinceStop, pausedAt, staleUpTo>>
  /\ NoEffects
  /\ NoReport
  /\ UNCHANGED <<modes, playback>>
  /\ UNCHANGED saturated

\* stopAudio()
stopAudio ==
  /\ shouldStop' = TRUE
  /\ stopQueue' = IF shouldStop THEN stopQueue ELSE buffer
  /\ UNCHANGED <<buffer, shouldBuffer, shouldClearBuffer, closed>>
  /\ UNCHANGED engine
  /\ UNCHANGED <<received, delivered, satCount, pendingReady,
                 flushedSinceStop, pausedAt, staleUpTo>>
  /\ NoEffects
  /\ NoReport
  /\ UNCHANGED <<modes, playback>>
  /\ UNCHANGED saturated

\* resumeAudio() that only restarts the stream: the queue is kept and no
\* clearing step is requested.
resumeAudio_NoFlush ==
  /\ IF ~streamRunning
     THEN /\ streamRunning' = streamOpen
          /\ inflight' = IF streamOpen THEN 0 ELSE inflight
          /\ staleUpTo' = IF streamOpen THEN pausedAt ELSE staleUpTo
          /\ issued' = Log(<<"startStream">>)
     ELSE UNCHANGED <<streamRunning, inflight, staleUpTo>> /\ issued' = <<>>
  /\ destroyCb' = <<>>
  /\ UNCHANGED <<buffer, shouldClearBuffer, satCount, flushedSinceStop>>
  /\ UNCHANGED <<shouldBuffer, shouldStop, closed, streamOpen>>
  /\ UNCHANGED <<received, delivered, pendingReady, stopQueue, pausedAt>>
  /\ overflowRaised' = FALSE
  /\ NoReport
  /\ UNCHANGED <<modes, playback>>
  /\ UNCHANGED saturated

\* resumeAudio().  startStream() on a closed stream starts nothing (the
\* engine reports an error to the error callback).
resumeAudio ==
  /\ IF ~streamRunning
     THEN /\ buffer' = <<>>
          /\ shouldClearBuffer' = TRUE
          /\ streamRunning' = streamOpen
          /\ inflight' = IF streamOpen THEN 0 ELSE inflight
          /\ satCount' = 0
          /\ flushedSinceStop' = (flushedSinceStop \/ (shouldStop /\ buffer # <<>>))
          /\ staleUpTo' = IF streamOpen THEN pausedAt ELSE staleUpTo
          /\ issued' = Log(<<"startStream">>)
     ELSE /\ UNCHANGED <<buffer, shouldClearBuffer, streamRunning, inflight,
                         satCount, flushedSinceStop, staleUpTo>>
          /\ issued' = <<>>
  /\ destroyCb' = <<>>
  /\ UNCHANGED <<shouldBuffer, shouldStop, closed, streamOpen>>
  /\ UNCHANGED <<received, delivered, pendingReady, stopQueue, pausedAt>>
  /\ overflowRaised' = FALSE
  /\ NoReport
  /\ UNCHANGED <<modes, playback>>
  /\ UNCHANGED saturated

\* pauseAudio().  abortStream() stops the stream; up to MaxInflight
\* callbacks it had already scheduled still run.
pauseAudio ==
  /\ IF streamRunning
     THEN /\ streamRunning' = FALSE
          /\ \E k \in 0..MaxInflight : inflight' = k
          /\ pausedAt' = received
          /\ issued' = Log(<<"abortStream">>)
     ELSE UNCHANGED <<streamRunning, inflight, pausedAt>> /\ issued' = <<>>
  /\ destroyCb' = <<>>
  /\ UNCHANGED fields
  /\ UNCHANGED streamOpen
  /\ UNCHANGED <<received, delivered, satCount, pendingReady,
                 stopQueue, flushedSinceStop, staleUpTo>>
  /\ overflowRaised' = FALSE
  /\ NoReport
  /\ UNCHANGED <<modes, playback>>
  /\ UNCHANGED saturated

\* resume()
resume ==
  /\ shouldBuffer' = FALSE
  /\ UNCHANGED <<buffer, shouldStop, shouldClearBuffer, closed>>
  /\ UNCHANGED engine
  /\ UNCHANGED history
  /\ NoEffects
  /\ NoReport
  /\ UNCHANGED <<modes, playback>>
  /\ saturated' = FALSE

\* pause()
pause ==
  /\ shouldBuffer' = TRUE
  /\ UNCHANGED <<buffer, shouldStop, shouldClearBuffer, closed>>
  /\ UNCHANGED engine
  /\ UNCHANGED history
  /\ NoEffects
  /\ NoReport
  /\ UNCHANGED <<modes, playback>>
  /\ UNCHANGED saturated

\* _read(size): the consumer's pull request
read ==
  /\ shouldBuffer' = FALSE
  /\ UNCHANGED <<buffer, shouldStop, shouldClearBuffer, closed>>
  /\ UNCHANGED engine
  /\ UNCHANGED history
  /\ NoEffects
  /\ NoReport
  /\ UNCHANGED <<modes, playback>>
  /\ saturated' = FALSE

\* _destroy without the isStreamOpen() check.
destroy_CloseAlways(error) ==
  /\ IF streamOpen
     THEN /\ streamOpen' = FALSE
          /\ streamRunning' = FALSE
          /\ \E k \in 0..MaxInflight : inflight' = IF streamRunning THEN k ELSE Min(k, inflight)
     ELSE UNCHANGED engine
  /\ issued' = Log(<<"closeStream">>)
  /\ destroyCb' = Log(<<error>>)
  /\ overflowRaised' = FALSE
  /\ closed' = TRUE
  /\ UNCHANGED <<buffer, shouldBuffer, shouldStop, shouldClearBuffer>>
  /\ UNCHANGED history
  /\ NoReport
  /\ UNCHANGED <<modes, playback>>
  /\ UNCHANGED saturated

\* _destroy that invokes its callback and leaves the engine stream as it is.
destroy_NoClose(error) ==
  /\ UNCHANGED engine
  /\ issued' = <<>>
  /\ destroyCb' = Log(<<error>>)
  /\ overflowRaised' = FALSE
  /\ closed' = TRUE
  /\ UNCHANGED <<buffer, shouldBuffer, shouldStop, shouldClearBuffer>>
  /\ UNCHANGED history
  /\ NoReport
  /\ UNCHANGED <<modes, playback>>
  /\ UNCHANGED saturated

\* _destroy(error, callback): closeStream() if the stream is open, then
\* callback(error), on which Readable marks the stream closed.
destroy(error) ==
  /\ IF streamOpen
     THEN /\ streamOpen' = FALSE
          /\ streamRunning' = FALSE
          /\ \E k \in 0..MaxInflight : inflight' = IF streamRunning THEN k ELSE Min(k, inflight)
          /\ issued' = Log(<<"closeStream">>)
     ELSE UNCHANGED engine /\ issued' = <<>>
  /\ destroyCb' = Log(<<error>>)
  /\ overflowRaised' = FALSE
  /\ closed' = TRUE
  /\ UNCHANGED <<buffer, shouldBuffer, shouldStop, shouldClearBuffer>>
  /\ UNCHANGED history
  /\ NoReport
  /\ UNCHANGED <<modes, playback>>
  /\ UNCHANGED saturated

\* Some callback invocation (any push answer, any status).
CallbackStep == \E ok \in BOOLEAN, status \in StreamStatus : Callback(ok, status)

Next ==
  \/ CallbackStep
  \/ stopAudio
  \/ resumeAudio
  \/ pauseAudio
  \/ resume
  \/ pause
  \/ read
  \/ \E error \in Errors : destroy(error)

Spec == Init /\ [][Next]_vars

\* The engine invokes the callback once per frame period for as long as the
\* stream runs: a callback that stays possible is eventually run.  Nothing
\* is assumed of the consumer.
FairSpec == Spec /\ WF_vars(CallbackStep)

\* ---- a consumer that calls pause() from its 'data' handler
\* _shouldBuffer set from the answer of push (this._shouldBuffer =
\* !this.push(x)).
AfterPush_Assign(sb, ok) == ~ok

\* _shouldBuffer once `if (!this.push(x)) { this._shouldBuffer = true }` has
\* run: sb is its value when push returns, ok the answer of push.
AfterPush(sb, ok) == IF ok THEN sb ELSE TRUE

\* The callback when Readable.push emits 'data' before it returns and the
\* handler of the consumer calls pause(): the callback hands a frame to
\* push, pause() sets _shouldBuffer inside that call, and the callback then
\* tests the answer of push.
CallbackPaused(ok, status) ==
  LET r == Handle(buffer, shouldBuffer, shouldStop, NextFrame, ok) IN
  /\ streamRunning \/ inflight > 0
  /\ CallbackWithinBounds
  /\ ~shouldClearBuffer /\ ~closed
  /\ r.pushed # <<>> /\ Null \notin Range(r.pushed)
  /\ inflight' = IF streamRunning THEN inflight ELSE inflight - 1
  /\ UNCHANGED <<streamOpen, streamRunning, shouldStop, closed>>
  /\ received' = NextFrame
  /\ UNCHANGED <<stopQueue, flushedSinceStop, pausedAt, staleUpTo>>
  /\ NoCalls
  /\ NoReport
  /\ UNCHANGED <<traced, reported, playback>>
  /\ reentered' = TRUE
  /\ UNCHANGED shouldClearBuffer
  /\ overflowRaised' = (status = "overflow")
  /\ buffer' = Kept(r.buffer)
  /\ delivered' = delivered \o r.pushed
  /\ shouldBuffer' = AfterPush(TRUE, ok)
  /\ satCount' = IF r.buffer = <<>> THEN 0
                 ELSE IF shouldBuffer THEN CountUp(satCount) ELSE satCount
  /\ pendingReady' = IF ~shouldStop /\ ~shouldBuffer /\ buffer # <<>>
                     THEN NextFrame ELSE 0
  /\ saturated' = (traced /\ ~ok)

\* Some callback during which the consumer paused the stream.
CallbackPausedStep ==
  \E ok \in BOOLEAN, status \in StreamStatus : CallbackPaused(ok, status)

ReentrantNext ==
  \/ CallbackStep
  \/ CallbackPausedStep
  \/ stopAudio
  \/ resumeAudio
  \/ pauseAudio
  \/ resume
  \/ pause
  \/ read
  \/ \E error \in Errors : destroy(error)

ReentrantSpec == Init /\ [][ReentrantNext]_vars

\* ------------------------------------------------------- AudioWriteStream
\* merge with its arguments in the wrong order: the chunk in front of the
\* accumulator.
merge_Prepend(u1, u2) == u2 \o u1

\* merge(u1, u2)
merge(u1, u2) == u1 \o u2

\* head that hands out whatever is there when fewer than n bytes are left.
head_Partial(u, n) ==
  IF Len(u) < n
  THEN <<u, <<>>>>
  ELSE <<SubSeq(u, 1, n), SubSeq(u, n + 1, Len(u))>>

\* head(u, n): <<h, rest>>
head(u, n) ==
  IF Len(u) < n
  THEN <<<<>>, u>>
  ELSE <<SubSeq(u, 1, n), SubSeq(u, n + 1, Len(u))>>

\* The step emits neither 'api:processed' nor 'api:underflow'.
NoEvents == processedRaised' = FALSE /\ underflowRaised' = FALSE

\* s without its first k elements.
Rest(s, k) == SubSeq(s, Min(k, Len(s)) + 1, Len(s))

\* The number that the bytes written beyond MaxBytes share.
Late == MaxBytes + 1

\* The numbered bytes of h: the output history leaves the others out.
Numbered(h) == SelectSeq(h, LAMBDA b : b # Late)

\* The full chunks of n bytes at the head of u.
FullChunks(u, n) == SubSeq(u, 1, (Len(u) \div n) * n)

\* Parameters the AudioWriteStream is built with.
BufferFramesSet == {1, 4}
ChannelsSet == {1, 2}
FormatSet == RtAudioFormat \cup {"none"}

\* Byte lengths of the chunks handed to _write and _writev.
WriteSizes == {5, 20}

\* One AudioWriteStream, built with any of the parameters.
WriteInit ==
  /\ traced = FALSE
  /\ reported = FALSE /\ reentered = FALSE
  /\ InputInit
  /\ \E bufferFrames \in BufferFramesSet, channels \in ChannelsSet, format \in FormatSet :
        WriteInitWith(bufferFrames, channels, format)

\* The bytes of a chunk of n bytes: bytes are numbered in the order they
\* are handed to _write/_writev in a chunk that passes the type check.
Bytes(n) == [i \in 1..n |-> written + i]

\* A callback that tests the underflow status only as the last branch of
\* its if-else chain.
WriteCallback_UnderflowLast(status) ==
  /\ wRunning \/ wInflight > 0
  /\ LET hr == head(wBuffer, chunkSize)
         h == hr[1]
         rest == hr[2]
         closes == Len(h) = 0 /\ shouldClose
     IN
       /\ wBuffer' = rest
       /\ output' = output \o Numbered(h)
       /\ processedRaised' = (Len(h) > 0)
       /\ underflowRaised' = (status = "underflow" /\ Len(h) = 0 /\ ~shouldClose)
       /\ taken' = IF Len(taken) <= lenAtWrite \div chunkSize
                   THEN Append(taken, Len(h)) ELSE taken
       /\ IF closes
          THEN /\ wOpen' = FALSE
               /\ wRunning' = FALSE
               /\ \E k \in 0..MaxInflight :
                     wInflight' = IF wRunning THEN k ELSE Min(k, wInflight - 1)
               /\ closeCalls' = closeCalls + 1
               /\ destroyDone' = IF destroyCallback = "noop" THEN destroyDone
                                 ELSE Append(destroyDone, destroyError)
          ELSE /\ wInflight' = IF wRunning THEN wInflight ELSE wInflight - 1
               /\ UNCHANGED <<wOpen, wRunning, closeCalls, destroyDone>>
  /\ UNCHANGED <<chunkSize, shouldClose, destroyCallback, destroyError>>
  /\ UNCHANGED <<written, lenAtWrite, destroyCalls, lastWrite>>
  /\ owed' = Rest(owed, Len(head(wBuffer, chunkSize)[1]))
  /\ owedChunks' = Rest(owedChunks, Len(head(wBuffer, chunkSize)[1]))
  /\ UNCHANGED <<params, dropped>>
  /\ WriteNoReport
  /\ UNCHANGED <<modes, capture>>

\* The realtime callback registered with openStream.  closeStream() lets up
\* to MaxInflight callbacks that were already scheduled still run.
WriteCallback(status) ==
  /\ wRunning \/ wInflight > 0
  /\ LET hr == head(wBuffer, chunkSize)
         h == hr[1]
         rest == hr[2]
         closes == Len(h) = 0 /\ shouldClose
     IN
       /\ wBuffer' = rest
       /\ output' = output \o Numbered(h)
       /\ processedRaised' = (Len(h) > 0)
       /\ underflowRaised' = (status = "underflow")
       /\ taken' = IF Len(taken) <= lenAtWrite \div chunkSize
                   THEN Append(taken, Len(h)) ELSE taken
       /\ IF closes
          THEN /\ wOpen' = FALSE
               /\ wRunning' = FALSE
               /\ \E k \in 0..MaxInflight :
                     wInflight' = IF wRunning THEN k ELSE Min(k, wInflight - 1)
               /\ closeCalls' = closeCalls + 1
               /\ destroyDone' = IF destroyCallback = "noop" THEN destroyDone
                                 ELSE Append(destroyDone, destroyError)
          ELSE /\ wInflight' = IF wRunning THEN wInflight ELSE wInflight - 1
               /\ UNCHANGED <<wOpen, wRunning, closeCalls, destroyDone>>
  /\ UNCHANGED <<chunkSize, shouldClose, destroyCallback, destroyError>>
  /\ UNCHANGED <<written, lenAtWrite, destroyCalls, lastWrite>>
  /\ owed' = Rest(owed, Len(head(wBuffer, chunkSize)[1]))
  /\ owedChunks' = Rest(owedChunks, Len(head(wBuffer, chunkSize)[1]))
  /\ UNCHANGED <<params, dropped>>
  /\ WriteNoReport
  /\ UNCHANGED <<modes, capture>>

\* _write without the isStreamRunning() check: the chunk is always merged.
write_NoRunningCheck(isUint8, n) ==
  /\ written + n <= MaxBytes
  /\ IF ~isUint8
     THEN /\ lastWrite' = "TypeError"
          /\ UNCHANGED <<wBuffer, written, dropped>>
     ELSE /\ wBuffer' = merge(wBuffer, Bytes(n))
          /\ written' = written + n
          /\ lastWrite' = "callback"
          /\ dropped' = IF wRunning THEN dropped ELSE dropped \cup Range(Bytes(n))
  /\ lenAtWrite' = Len(wBuffer')
  /\ taken' = <<>>
  /\ UNCHANGED <<chunkSize, shouldClose, destroyCallback, destroyError>>
  /\ UNCHANGED wengine
  /\ UNCHANGED <<output, closeCalls, destroyCalls, destroyDone>>
  /\ NoEvents
  /\ UNCHANGED <<params, owed, owedChunks>>
  /\ WriteNoReport
  /\ UNCHANGED <<modes, capture>>

\* _write(chunk, encoding, callback) for a chunk of n bytes; isUint8 is
\* isUint8Array(chunk).
write(isUint8, n) ==
  /\ written + n <= MaxBytes
  /\ IF ~isUint8
     THEN /\ lastWrite' = "TypeError"
          /\ UNCHANGED <<wBuffer, written, dropped>>
     ELSE /\ wBuffer' = IF wRunning THEN merge(wBuffer, Bytes(n)) ELSE wBuffer
          /\ written' = written + n
          /\ lastWrite' = "callback"
          /\ dropped' = IF wRunning THEN dropped ELSE dropped \cup Range(Bytes(n))
  /\ lenAtWrite' = Len(wBuffer')
  /\ taken' = <<>>
  /\ UNCHANGED <<chunkSize, shouldClose, destroyCallback, destroyError>>
  /\ UNCHANGED wengine
  /\ UNCHANGED <<output, closeCalls, destroyCalls, destroyDone>>
  /\ NoEvents
  /\ UNCHANGED <<params, owed, owedChunks>>
  /\ WriteNoReport
  /\ UNCHANGED <<modes, capture>>

\* _writev that checks each chunk as it merges it: the chunks in front of
\* the first one that is not a Uint8Array are merged before it throws.
writev_CheckWhileMerging(isUint8a, n1, isUint8b, n2) ==
  /\ written + n1 + n2 <= MaxBytes
  /\ IF ~isUint8a \/ ~isUint8b
     THEN /\ lastWrite' = "TypeError"
          /\ wBuffer' = IF isUint8a /\ wRunning THEN merge(wBuffer, Bytes(n1)) ELSE wBuffer
          /\ written' = IF isUint8a THEN written + n1 ELSE written
          /\ UNCHANGED dropped
     ELSE /\ wBuffer' = IF wRunning
                        THEN merge(merge(wBuffer, Bytes(n1)),
                                   [i \in 1..n2 |-> written + n1 + i])
                        ELSE wBuffer
          /\ written' = written + n1 + n2
          /\ lastWrite' = "callback"
          /\ dropped' = IF wRunning THEN dropped
                        ELSE dropped \cup ((written + 1)..(written + n1 + n2))
  /\ lenAtWrite' = Len(wBuffer')
  /\ taken' = <<>>
  /\ UNCHANGED <<chunkSize, shouldClose, destroyCallback, destroyError>>
  /\ UNCHANGED wengine
  /\ UNCHANGED <<output, closeCalls, destroyCalls, destroyDone>>
  /\ NoEvents
  /\ UNCHANGED <<params, owed, owedChunks>>
  /\ WriteNoReport
  /\ UNCHANGED <<modes, capture>>

\* _writev(chunks, callback) for two chunks of n1 and n2 bytes.
writev(isUint8a, n1, isUint8b, n2) ==
  /\ written + n1 + n2 <= MaxBytes
  /\ IF ~isUint8a \/ ~isUint8b
     THEN /\ lastWrite' = "TypeError"
          /\ UNCHANGED <<wBuffer, written, dropped>>
     ELSE /\ wBuffer' = IF wRunning
                        THEN merge(merge(wBuffer, Bytes(n1)),
                                   [i \in 1..n2 |-> written + n1 + i])
                        ELSE wBuffer
          /\ written' = written + n1 + n2
          /\ lastWrite' = "callback"
          /\ dropped' = IF wRunning THEN dropped
                        ELSE dropped \cup ((written + 1)..(written + n1 + n2))
  /\ lenAtWrite' = Len(wBuffer')
  /\ taken' = <<>>
  /\ UNCHANGED <<chunkSize, shouldClose, destroyCallback, destroyError>>
  /\ UNCHANGED wengine
  /\ UNCHANGED <<output, closeCalls, destroyCalls, destroyDone>>
  /\ NoEvents
  /\ UNCHANGED <<params, owed, owedChunks>>
  /\ WriteNoReport
  /\ UNCHANGED <<modes, capture>>

\* _destroy that invokes its callback at once although the stream is open.
writeDestroy_Immediate(error) ==
  /\ destroyCalls < MaxDestroyCalls
  /\ destroyCalls' = destroyCalls + 1
  /\ shouldClose' = TRUE
  /\ destroyDone' = Append(destroyDone, error)
  /\ UNCHANGED <<destroyCallback, destroyError>>
  /\ UNCHANGED <<chunkSize, wBuffer>>
  /\ UNCHANGED wengine
  /\ UNCHANGED <<written, output, lenAtWrite, taken, closeCalls, lastWrite>>
  /\ NoEvents
  /\ owed' = IF wOpen THEN wBuffer ELSE owed
  /\ owedChunks' = IF wOpen THEN FullChunks(wBuffer, chunkSize) ELSE owedChunks
  /\ UNCHANGED <<params, dropped>>
  /\ WriteNoReport
  /\ UNCHANGED <<modes, capture>>

\* _destroy that does not set _shouldClose.
writeDestroy_NoFlag(error) ==
  /\ destroyCalls < MaxDestroyCalls
  /\ destroyCalls' = destroyCalls + 1
  /\ UNCHANGED shouldClose
  /\ IF wOpen
     THEN /\ destroyCallback' = "callback"
          /\ destroyError' = error
          /\ UNCHANGED destroyDone
     ELSE /\ destroyDone' = Append(destroyDone, error)
          /\ UNCHANGED <<destroyCallback, destroyError>>
  /\ UNCHANGED <<chunkSize, wBuffer>>
  /\ UNCHANGED wengine
  /\ UNCHANGED <<written, output, lenAtWrite, taken, closeCalls, lastWrite>>
  /\ NoEvents
  /\ owed' = IF wOpen THEN wBuffer ELSE owed
  /\ owedChunks' = IF wOpen THEN FullChunks(wBuffer, chunkSize) ELSE owedChunks
  /\ UNCHANGED <<params, dropped>>
  /\ WriteNoReport
  /\ UNCHANGED <<modes, capture>>

\* AudioWriteStream._destroy(error, callback)
writeDestroy(error) ==
  /\ destroyCalls < MaxDestroyCalls
  /\ destroyCalls' = destroyCalls + 1
  /\ shouldClose' = TRUE
  /\ IF wOpen
     THEN /\ destroyCallback' = "callback"
          /\ destroyError' = error
          /\ UNCHANGED destroyDone
     ELSE /\ destroyDone' = Append(destroyDone, error)
          /\ UNCHANGED <<destroyCallback, destroyError>>
  /\ UNCHANGED <<chunkSize, wBuffer>>
  /\ UNCHANGED wengine
  /\ UNCHANGED <<written, output, lenAtWrite, taken, closeCalls, lastWrite>>
  /\ NoEvents
  /\ owed' = IF wOpen THEN wBuffer ELSE owed
  /\ owedChunks' = IF wOpen THEN FullChunks(wBuffer, chunkSize) ELSE owedChunks
  /\ UNCHANGED <<params, dropped>>
  /\ WriteNoReport
  /\ UNCHANGED <<modes, capture>>

\* _final that closes the engine stream itself.
final_Close ==
  /\ shouldClose' = TRUE
  /\ lastWrite' = "final"
  /\ UNCHANGED <<chunkSize, wBuffer, destroyCallback, destroyError>>
  /\ wOpen' = FALSE
  /\ wRunning' = FALSE
  /\ UNCHANGED wInflight
  /\ closeCalls' = IF wOpen THEN closeCalls + 1 ELSE closeCalls
  /\ UNCHANGED <<written, output, lenAtWrite, taken, destroyCalls, destroyDone>>
  /\ NoEvents
  /\ owed' = IF wOpen THEN wBuffer ELSE owed
  /\ UNCHANGED <<params, dropped, owedChunks>>
  /\ WriteNoReport
  /\ UNCHANGED <<modes, capture>>

\* _final(callback)
final ==
  /\ shouldClose' = TRUE
  /\ lastWrite' = "final"
  /\ UNCHANGED <<chunkSize, wBuffer, destroyCallback, destroyError>>
  /\ UNCHANGED wengine
  /\ UNCHANGED <<written, output, lenAtWrite, taken, closeCalls, destroyCalls,
                 destroyDone>>
  /\ NoEvents
  /\ owed' = IF wOpen THEN wBuffer ELSE owed
  /\ UNCHANGED <<params, dropped, owedChunks>>
  /\ WriteNoReport
  /\ UNCHANGED <<modes, capture>>

\* Some callback invocation (any status).
WriteCallbackStep == \E status \in {"ok", "underflow"} : WriteCallback(status)

WriteNext ==
  \/ WriteCallbackStep
  \/ \E isUint8 \in BOOLEAN, n \in WriteSizes : write(isUint8, n)
  \/ \E isUint8a, isUint8b \in BOOLEAN, n1, n2 \in WriteSizes : writev(isUint8a, n1, isUint8b, n2)
  \/ \E error \in Errors : writeDestroy(error)
  \/ final

WriteSpec == WriteInit /\ [][WriteNext]_vars

\* ---- a consumer that calls write() from its 'api:processed' handler
\* The callback storing rest only after the emit: what the handler wrote is
\* overwritten.
StoreThenEmit_EmitFirst(rest, chunk, running) == rest

\* _buffer when the callback returns, a handler of 'api:processed' having
\* written chunk during the emit: the callback stores rest before it emits,
\* and _write merges chunk into the _buffer it finds when the stream is
\* running.
StoreThenEmit(rest, chunk, running) ==
  IF running THEN merge(rest, chunk) ELSE rest

\* The callback when a handler of 'api:processed' writes a chunk of n bytes
\* (a Uint8Array) before emit returns: the callback has found a full chunk,
\* so that it emits, and _write runs inside the emit.
WriteCallbackWriting(status, n) ==
  /\ wRunning \/ wInflight > 0
  /\ written + n <= MaxBytes
  /\ LET hr == head(wBuffer, chunkSize)
         h == hr[1]
         rest == hr[2]
     IN
       /\ Len(h) > 0
       /\ wBuffer' = StoreThenEmit(rest, Bytes(n), wRunning)
       /\ output' = output \o Numbered(h)
       /\ processedRaised' = TRUE
       /\ underflowRaised' = (status = "underflow")
       /\ owed' = Rest(owed, Len(h))
       /\ owedChunks' = Rest(owedChunks, Len(h))
  /\ wInflight' = IF wRunning THEN wInflight ELSE wInflight - 1
  /\ UNCHANGED <<wOpen, wRunning, closeCalls, destroyDone>>
  /\ written' = written + n
  /\ lastWrite' = "callback"
  /\ dropped' = IF wRunning THEN dropped ELSE dropped \cup Range(Bytes(n))
  /\ lenAtWrite' = Len(wBuffer')
  /\ taken' = <<>>
  /\ UNCHANGED <<chunkSize, shouldClose, destroyCallback, destroyError>>
  /\ UNCHANGED destroyCalls
  /\ UNCHANGED params
  /\ WriteNoReport
  /\ UNCHANGED <<traced, reported, capture>>
  /\ reentered' = TRUE

\* Some callback during which the consumer wrote a chunk.
WriteCallbackWritingStep ==
  \E status \in {"ok", "underflow"}, n \in WriteSizes : WriteCallbackWriting(status, n)

WriteReentrantNext ==
  \/ WriteCallbackStep
  \/ WriteCallbackWritingStep
  \/ \E isUint8 \in BOOLEAN, n \in WriteSizes : write(isUint8, n)
  \/ \E isUint8a, isUint8b \in BOOLEAN, n1, n2 \in WriteSizes : writev(isUint8a, n1, isUint8b, n2)
  \/ \E error \in Errors : writeDestroy(error)
  \/ final

\* One AudioWriteStream (frame size 4, 1 channel, format omitted: chunks of
\* 8 bytes) with such a consumer.
WriteReentrantSpec == Init /\ [][WriteReentrantNext]_vars

\* _write(chunk, encoding, callback) for a Uint8Array chunk of n bytes that
\* no longer fits in the MaxBytes numbered bytes of a run, on a running
\* stream: its bytes are merged as Late bytes.  The accumulator is kept
\* within MaxBytes bytes.
writeLate(n) ==
  /\ written + n > MaxBytes
  /\ wRunning
  /\ Len(wBuffer) + n <= MaxBytes
  /\ wBuffer' = merge(wBuffer, [i \in 1..n |-> Late])
  /\ lastWrite' = "callback"
  /\ lenAtWrite' = Len(wBuffer')
  /\ taken' = <<>>
  /\ UNCHANGED <<chunkSize, shouldClose, destroyCallback, destroyError>>
  /\ UNCHANGED wengine
  /\ UNCHANGED <<written, output, closeCalls, destroyCalls, destroyDone>>
  /\ NoEvents
  /\ UNCHANGED wmarks
  /\ WriteNoReport
  /\ UNCHANGED <<modes, capture>>

\* Some write beyond the numbered bytes.
LateWrite == \E n \in WriteSizes : writeLate(n)

\* The AudioWriteStream with a producer that may write without end, and an
\* engine that invokes the callback once per frame period for as long as
\* the stream runs.
WriteFairNext == WriteNext \/ LateWrite

WriteFairSpec == Init /\ [][WriteFairNext]_vars /\ WF_vars(WriteCallbackStep)

\* ---------------------------------------------------------- either adapter
\* The two adapters share no state.  A run of EitherSpec uses one of them,
\* beside the other one left as built, and records the calls of each step.
EitherInit == traced = TRUE /\ reported = FALSE /\ reentered = FALSE /\ InputInit /\ WriteInitWith(4, 1, "none")

\* Nothing has been done with the AudioWriteStream since it was built.
PlaybackAsBuilt == WriteInitOf(params)

\* Nothing has been done with the AudioInputStream since it was built.
CaptureAsBuilt == InputInitOf(inputParams)

EitherNext ==
  \/ PlaybackAsBuilt /\ CallbackStep
  \/ PlaybackAsBuilt /\ stopAudio
  \/ PlaybackAsBuilt /\ resumeAudio
  \/ PlaybackAsBuilt /\ pauseAudio
  \/ PlaybackAsBuilt /\ resume
  \/ PlaybackAsBuilt /\ pause
  \/ PlaybackAsBuilt /\ read
  \/ PlaybackAsBuilt /\ \E error \in Errors : destroy(error)
  \/ CaptureAsBuilt /\ WriteCallbackStep
  \/ CaptureAsBuilt /\ \E isUint8 \in BOOLEAN, n \in WriteSizes : write(isUint8, n)
  \/ CaptureAsBuilt /\ \E isUint8a, isUint8b \in BOOLEAN, n1, n2 \in WriteSizes :
                          writev(isUint8a, n1, isUint8b, n2)
  \/ CaptureAsBuilt /\ \E error \in Errors : writeDestroy(error)
  \/ CaptureAsBuilt /\ final

EitherSpec == EitherInit /\ [][EitherNext]_vars

\* ------------------------------------------------------------ error reports
\* RtAudioErrorType: the severities of the engine's error reports, a debug
\* warning being the lowest.
RtAudioErrorType ==
  [DEBUG_WARNING |-> 0, WARNING |-> 1, UNSPECIFIED |-> 2, NO_DEVICES_FOUND |-> 3,
   INVALID_DEVICE |-> 4, MEMORY_ERROR |-> 5, INVALID_PARAMETER |-> 6,
   INVALID_USE |-> 7, DRIVER_ERROR |-> 8, SYSTEM_ERROR |-> 9, THREAD_ERROR |-> 10]

ErrorTypes == DOMAIN RtAudioErrorType

\* if (type > RtAudioErrorType.DEBUG_WARNING) this.emit('error', ...):
\* the number of 'error' events an error callback emits.
Emitted(type) ==
  IF RtAudioErrorType[type] > RtAudioErrorType["DEBUG_WARNING"] THEN 1 ELSE 0

\* An error callback that also lets debug warnings through.
errorCallback_Inclusive(type) ==
  /\ errorRaised' = IF RtAudioErrorType[type] >= RtAudioErrorType["DEBUG_WARNING"] THEN 1 ELSE 0
  /\ UNCHANGED <<inputParams, highWaterMark, warnings>>
  /\ UNCHANGED <<fields, engine, history>>
  /\ NoEffects
  /\ UNCHANGED <<modes, playback>>
  /\ UNCHANGED saturated

\* The error callback the AudioInputStream registers with setErrorCallback,
\* invoked by the engine with an error of the given type.
errorCallback(type) ==
  /\ errorRaised' = Emitted(type)
  /\ UNCHANGED <<inputParams, highWaterMark, warnings>>
  /\ UNCHANGED <<fields, engine, history>>
  /\ NoEffects
  /\ UNCHANGED <<modes, playback>>
  /\ UNCHANGED saturated

\* AudioInputStream.enableWarnings() / disableWarnings(): showWarnings(on).
showWarnings(on) ==
  /\ warnings' = on
  /\ errorRaised' = 0
  /\ UNCHANGED <<inputParams, highWaterMark>>
  /\ UNCHANGED <<fields, engine, history>>
  /\ NoEffects
  /\ UNCHANGED <<modes, playback>>
  /\ UNCHANGED saturated

enableWarnings == showWarnings(TRUE)

disableWarnings == showWarnings(FALSE)

\* The error callback the AudioWriteStream registers with setErrorCallback.
writeErrorCallback(type) ==
  /\ wErrorRaised' = Emitted(type)
  /\ UNCHANGED <<wHighWaterMark, wWarnings>>
  /\ UNCHANGED <<wfields, wengine, wmarks>>
  /\ UNCHANGED <<written, output, lenAtWrite, taken, closeCalls, destroyCalls,
                 destroyDone, lastWrite>>
  /\ NoEvents
  /\ UNCHANGED <<modes, capture>>

\* AudioWriteStream.enableWarnings() / disableWarnings(): showWarnings(on).
writeShowWarnings(on) ==
  /\ wWarnings' = on
  /\ wErrorRaised' = 0
  /\ UNCHANGED wHighWaterMark
  /\ UNCHANGED <<wfields, wengine, wmarks>>
  /\ UNCHANGED <<written, output, lenAtWrite, taken, closeCalls, destroyCalls,
                 destroyDone, lastWrite>>
  /\ NoEvents
  /\ UNCHANGED <<modes, capture>>

writeEnableWarnings == writeShowWarnings(TRUE)

writeDisableWarnings == writeShowWarnings(FALSE)

\* Some error report to the AudioInputStream, to the AudioWriteStream.
ErrorReport == \E type \in ErrorTypes : errorCallback(type)

WriteErrorReport == \E type \in ErrorTypes : writeErrorCallback(type)

\* Either adapter, with the engine reporting errors and the consumer
\* switching the warnings at any moment.
ReportNext ==
  \/ EitherNext
  \/ PlaybackAsBuilt /\ ErrorReport
  \/ PlaybackAsBuilt /\ enableWarnings
  \/ PlaybackAsBuilt /\ disableWarnings
  \/ CaptureAsBuilt /\ WriteErrorReport
  \/ CaptureAsBuilt /\ writeEnableWarnings
  \/ CaptureAsBuilt /\ writeDisableWarnings

ReportInit == traced = FALSE /\ reported = TRUE /\ reentered = FALSE /\ InputInit /\ WriteInitWith(4, 1, "none")

ReportSpec == ReportInit /\ [][ReportNext]_vars

\* ------------------------------------------------------------ construction
\* highWaterMark parameters the adapters are built with.
HighWaterMarkSet == {Omitted, 0, 3}

\* Parameters the AudioWriteStream of a run of ParamSpec is built with.
WriteParamsSet ==
  [bufferFrames : {4}, channels : {1}, format : {"none", "RTAUDIO_SINT8"},
   highWaterMark : HighWaterMarkSet]

\* Parameters the AudioInputStream of a run of ParamSpec is built with.
InputParamsSet ==
  [bufferFrames : {4}, channels : {1}, format : {"none"}, highWaterMark : {Omitted, 3}]

\* Either adapter, built with any of these parameters beside the other one.
ParamInit ==
  /\ traced = TRUE
  /\ reported = FALSE /\ reentered = FALSE
  /\ \/ InputInit /\ \E p \in WriteParamsSet : WriteInitOf(p)
     \/ WriteInitOf(PlainParams) /\ \E p \in InputParamsSet : InputInitOf(p)

ParamSpec == ParamInit /\ [][EitherNext]_vars

\* ---------------------------------------------------------------- claims

\* The items a step hands to Readable.push.
NewlyPushed == {delivered'[i] : i \in (Len(delivered) + 1)..Len(delivered')}

\* The frames (non-null items) of a sequence, in order.
RECURSIVE Frames(_)
Frames(s) ==
  IF s = <<>> THEN <<>>
  ELSE IF Head(s) = Null THEN Frames(Tail(s))
  ELSE <<Head(s)>> \o Frames(Tail(s))

StrictlyIncreasing(s) == \A i, j \in 1..Len(s) : i < j => s[i] < s[j]

\* C1 (FIFO order): the frames handed to the consumer are, in the same
\* relative order, a subsequence of the frames the engine passed to the
\* callback.  Frames are numbered by arrival, so: every delivered frame has
\* arrived and the delivered frame numbers strictly increase.
C1_FifoOrder ==
  /\ \A i \in 1..Len(delivered) : delivered[i] # Null => delivered[i] \in 1..received
  /\ StrictlyIncreasing(Frames(delivered))

\* Frames were queued while the consumer was saturated, delivered from the
\* queue after it became ready, and a later frame was delivered as well.
C1_Witness ==
  /\ Len(Frames(delivered)) >= 3
  /\ buffer # <<>>
  /\ shouldBuffer
  /\ ~shouldStop

EndDelivered == Null \in Range(delivered)

\* C2 (end-of-stream liveness), as claimed: after stopAudio(), if the stream
\* keeps running (so that the callback keeps being invoked), null is
\* eventually handed to the consumer.
C2_Original == [](shouldStop => <>(EndDelivered \/ ~streamRunning))

\* A callback that finds the consumer ready (_shouldBuffer false).
ReadyCallback == ~shouldBuffer /\ CallbackStep

\* C2 amended: the same when the consumer keeps pulling: it is ready again
\* and again (after every pause or reported saturation it pulls or resumes),
\* and of the callbacks that could run while it is ready, one eventually
\* does.
C2_EndOfStream ==
  ([]<>(~shouldBuffer) /\ SF_vars(ReadyCallback))
     => [](shouldStop => <>(EndDelivered \/ ~streamRunning))

\* stopAudio() found frames queued, the consumer then drained them and got
\* the terminal null while the stream was running.
C2_Witness ==
  /\ shouldStop
  /\ Len(stopQueue) >= 2
  /\ ~flushedSinceStop
  /\ EndDelivered
  /\ streamRunning
  /\ ~shouldBuffer

\* C3 (exactly one terminal signal), as claimed: push(null) is called at
\* most once.
C3_AtMostOneNull == NullCount(delivered) <= 1

\* C4 (no data after end): once null was handed to the consumer, no step
\* hands it a non-null frame.
C4_NoDataAfterEnd ==
  [][(Null \in Range(delivered)) => (\A x \in NewlyPushed : x = Null)]_vars

\* The terminal null was delivered after frames, and the consumer asked for
\* more afterwards while callbacks could still arrive.
C4_Witness ==
  /\ Null \in Range(delivered)
  /\ Frames(delivered) # <<>>
  /\ ~shouldBuffer
  /\ streamRunning

\* Position of the first null in s (Len(s) + 1 if there is none).
FirstNull(s) ==
  IF Null \in Range(s)
  THEN CHOOSE i \in 1..Len(s) : s[i] = Null /\ \A j \in 1..(i - 1) : s[j] # Null
  ELSE Len(s) + 1

\* The frames of stopQueue were delivered, in order, right before the
\* first null.
StopQueueBeforeNull ==
  LET k == FirstNull(delivered) IN
    /\ k > Len(stopQueue)
    /\ SubSeq(delivered, k - Len(stopQueue), k - 1) = stopQueue

\* C5 (ordered cancellation), as claimed: whatever happens after
\* stopAudio(), pauseAudio()/resumeAudio() included, the terminal null is
\* delivered only after every frame that was queued at stopAudio().
C5_Original ==
  (shouldStop /\ Null \in Range(delivered)) => StopQueueBeforeNull

\* C5 amended: the same, as long as no resumeAudio() on a stream that is not
\* running has emptied the queue since stopAudio().
C5_OrderedCancellation ==
  (shouldStop /\ ~flushedSinceStop /\ Null \in Range(delivered)) => StopQueueBeforeNull

C5_Witness ==
  /\ shouldStop
  /\ ~flushedSinceStop
  /\ Len(stopQueue) >= 2
  /\ Null \in Range(delivered)

\* C6 (stale-session isolation): after pauseAudio() aborted the stream and
\* resumeAudio() restarted it, no step hands the consumer a frame the
\* callback received before that pauseAudio().
C6_StaleIsolation ==
  [][(\A x \in NewlyPushed : x = Null \/ x > staleUpTo')]_vars

\* Frames were received before a pause, the last of them was never delivered,
\* and a frame of the new session was delivered after the resume.
C6_Witness ==
  /\ staleUpTo >= 2
  /\ staleUpTo \notin Range(delivered)
  /\ \E i \in 1..Len(delivered) : delivered[i] > staleUpTo

\* The consumer is ready and the callback takes the pass-through branch.
ReadyPassThrough == ~shouldBuffer /\ ~shouldStop /\ ~shouldClearBuffer /\ ~closed

\* C7 (queue drains after saturation clears), as claimed: with the consumer
\* ready before and after the callback (the delivery reported no saturation)
\* and the queue non-empty, the callback strictly decreases the queue length.
C7_QueueDrains ==
  [][(CallbackStep /\ ReadyPassThrough /\ ~shouldBuffer' /\ buffer # <<>>)
        => Len(buffer') < Len(buffer)]_vars

\* C8 (queue length bound): the queue is never longer than the number of
\* callbacks that ran with buffering true since it was last empty or
\* cleared, and a callback that runs with buffering false never makes it
\* longer.
C8_QueueBound ==
  [][/\ Len(buffer') <= satCount'
     /\ (CallbackStep /\ ~shouldBuffer) => Len(buffer') <= Len(buffer)]_vars

\* Two frames were queued while the consumer was saturated; it is ready
\* again and two callbacks have delivered from the queue while queuing the
\* frames they received.
C8_Witness ==
  /\ Len(buffer) = 2
  /\ satCount = 2
  /\ ~shouldBuffer
  /\ ~shouldStop
  /\ Len(delivered) >= 2

\* C9 (one-frame latency bound), as claimed: a frame received by a callback
\* while the consumer was ready, and queued by it, is delivered by the very
\* next callback, when that callback too finds the consumer ready.
C9_OneFrameLatency ==
  [][(CallbackStep /\ ReadyPassThrough /\ pendingReady # 0)
        => pendingReady \in Range(delivered')]_vars


\* C10 (playback slice sequence), as claimed: with L = q*chunkSize + r bytes
\* (0 < r < chunkSize) in the accumulator after the last write, the next
\* q + 1 callbacks take chunkSize, ..., chunkSize and then the remaining r
\* bytes, and leave the accumulator empty.
C10_SliceSequence ==
  LET q == lenAtWrite \div chunkSize
      r == lenAtWrite % chunkSize
  IN (r > 0 /\ Len(taken) = q + 1) =>
       /\ taken = [i \in 1..(q + 1) |-> IF i <= q THEN chunkSize ELSE r]
       /\ wBuffer = <<>>

\* C11 (ordered cancellation on playback), as claimed: once the adapter has
\* closed the engine stream, every byte that was in the accumulator at the
\* last close(error) or finish() before that has been copied to an output
\* buffer.
C11_OrderedCancellation == closeCalls > 0 => owed = <<>>

\* A _write or _writev whose chunks all pass the type check.
ValidWrite ==
  \/ \E n \in WriteSizes : write(TRUE, n)
  \/ \E n1, n2 \in WriteSizes : writev(TRUE, n1, TRUE, n2)

\* C12 (drop when not running): a write()/writeBatch() of byte sequences to
\* a stream that is not running is acknowledged, leaves the accumulator
\* unchanged, and none of its bytes is ever in the accumulator or in the
\* output.
C12_DropWhenNotRunning ==
  [][/\ (ValidWrite /\ ~wRunning) => (lastWrite' = "callback" /\ wBuffer' = wBuffer)
     /\ dropped' \cap (Range(wBuffer') \cup Range(output')) = {}]_vars

\* Bytes were played, the adapter closed the stream with bytes left in the
\* accumulator, and a later write was dropped and acknowledged.
C12_Witness ==
  /\ dropped # {}
  /\ lastWrite = "callback"
  /\ output # <<>>
  /\ wBuffer # <<>>
  /\ ~wRunning

\* A _write or _writev with a chunk that is not a Uint8Array.
InvalidWrite ==
  \/ \E n \in WriteSizes : write(FALSE, n)
  \/ \E isUint8a, isUint8b \in BOOLEAN, n1, n2 \in WriteSizes :
        (~isUint8a \/ ~isUint8b) /\ writev(isUint8a, n1, isUint8b, n2)

\* C13 (malformed write rejection): a write with a chunk that is not a byte
\* sequence throws a TypeError, is not acknowledged and leaves the
\* accumulator as it was, the valid chunks of a rejected batch included.
C13_MalformedWrite ==
  [][InvalidWrite => (lastWrite' = "TypeError" /\ wBuffer' = wBuffer
                      /\ output' = output)]_vars

\* A write was rejected while the stream was running with bytes buffered.
C13_Witness ==
  /\ lastWrite = "TypeError"
  /\ wBuffer # <<>>
  /\ wRunning

ClosePending == wOpen /\ destroyCallback = "callback"

\* The adapter has closed the stream and invoked the callback of _destroy.
CloseDone == ~wOpen /\ destroyDone # <<>>

\* C15 (deferred close terminates), as claimed: with the callback invoked
\* again and again, a _destroy on the open stream is eventually followed by
\* the close of the stream and the invocation of its callback.
C15_Original == [](ClosePending => <>CloseDone)

\* C15 amended: the same when the producer stops writing: from some moment
\* on no _write/_writev is called.
C15_DeferredCloseTerminates ==
  (<>[][~(ValidWrite \/ InvalidWrite \/ LateWrite)]_vars)
     => [](ClosePending => <>CloseDone)

\* _destroy found full chunks buffered; they were output, the stream closed
\* and the callback invoked.
C15_Witness ==
  /\ CloseDone
  /\ destroyCallback = "callback"
  /\ Len(output) >= 2 * chunkSize
  /\ closeCalls = 1

\* C16 (close of an already closed stream): on either adapter, _destroy(error)
\* on a stream that is already closed invokes its callback in the same call
\* with that error and issues no closeStream.
C16_CloseWhenClosed ==
  [][/\ \A e \in Errors :
          (destroy(e) /\ ~streamOpen) => (destroyCb' = <<e>> /\ issued' = <<>>)
     /\ \A e \in Errors :
          (writeDestroy(e) /\ ~wOpen)
             => (destroyDone' = Append(destroyDone, e) /\ closeCalls' = closeCalls)]_vars

\* The last step was a _destroy("E1") on an AudioInputStream whose stream
\* an earlier _destroy had closed.
C16_Witness ==
  /\ ~streamOpen
  /\ closed
  /\ issued = <<>>
  /\ destroyCb = <<"E1">>

\* C17 (idempotent close), as claimed: when _destroy is called twice on the
\* AudioWriteStream its callbacks are invoked at most once in total, and a
\* _destroy on an AudioInputStream that is already closed invokes no
\* callback again.
C17_IdempotentClose ==
  [][/\ destroyCalls' >= 2 => Len(destroyDone') <= 1
     /\ closed => destroyCb' = <<>>]_vars

\* C18 (closed is terminal), as claimed: once an adapter has closed its
\* engine stream, no step issues an engine command and the stream stays
\* closed and not running.
C18_ClosedIsTerminal ==
  [][/\ ~streamOpen => (issued' = <<>> /\ ~streamOpen' /\ ~streamRunning')
     /\ ~wOpen => (closeCalls' = closeCalls /\ ~wOpen' /\ ~wRunning')]_vars

\* C19 (lifecycle commands only from the consumer context), as claimed: no
\* realtime callback of either adapter issues an engine command.
C19_Original ==
  [][/\ CallbackStep => issued' = <<>>
     /\ WriteCallbackStep => closeCalls' = closeCalls]_vars

\* C19 amended: no callback of the AudioInputStream issues an engine
\* command; a callback of the AudioWriteStream issues closeStream, once, when
\* it finds _shouldClose set and fewer than chunkSize bytes buffered, and
\* nothing otherwise.
C19_LifecycleCommands ==
  [][/\ CallbackStep => issued' = <<>>
     /\ WriteCallbackStep =>
          closeCalls' = IF shouldClose /\ Len(wBuffer) < chunkSize
                        THEN closeCalls + 1 ELSE closeCalls]_vars

\* The AudioWriteStream played full chunks and its callback then closed the
\* stream.
C19_Witness ==
  /\ closeCalls = 1
  /\ ~wOpen
  /\ shouldClose
  /\ Len(output) >= chunkSize
  /\ traced

\* C20 (chunk size): chunkSize equals bufferFrames * channels * bytes per
\* sample, the bytes per sample being 1, 2, 4, 4, 8 for signed 8/16/32-bit
\* integer and 32/64-bit float and 2 when the format is omitted; and no
\* operation changes chunkSize.
C20_BytesPerSample ==
  [RTAUDIO_SINT8 |-> 1, RTAUDIO_SINT16 |-> 2, RTAUDIO_SINT32 |-> 4,
   RTAUDIO_FLOAT32 |-> 4, RTAUDIO_FLOAT64 |-> 8, none |-> 2]
C20_ChunkSize ==
  /\ [](chunkSize = params.bufferFrames * params.channels
                       * C20_BytesPerSample[params.format])
  /\ [][chunkSize' = chunkSize /\ params' = params]_vars

\* A stream built without a format (4 frames of 2 channels: 16 bytes a
\* chunk) has output a chunk and has been closed.
C20_Witness ==
  /\ params.bufferFrames = 4
  /\ params.channels = 2
  /\ params.format = "none"
  /\ chunkSize = 16
  /\ Len(output) >= 16
  /\ closeCalls > 0

\* C21 (high-water-mark override), as claimed: the highWaterMark each adapter
\* hands to its stream is params.highWaterMark when the parameters have one
\* and chunkSize when they have none.
C21_HighWaterMark ==
  /\ highWaterMark =
       IF inputParams.highWaterMark = Omitted
       THEN ChunkSizeOf(inputParams.bufferFrames, inputParams.channels, inputParams.format)
       ELSE inputParams.highWaterMark
  /\ wHighWaterMark =
       IF params.highWaterMark = Omitted THEN chunkSize ELSE params.highWaterMark

\* C22 (error surfacing by default): with warnings not enabled, an error
\* report of any type but DEBUG_WARNING makes the adapter emit exactly one
\* 'error', a DEBUG_WARNING report none, and a report changes no queue,
\* accumulator or flag of the adapter nor the state of its engine stream.
C22_ErrorSurfacing ==
  [][/\ \A type \in ErrorTypes :
          \/ /\ errorRaised' = IF type = "DEBUG_WARNING" THEN 0 ELSE 1
             /\ UNCHANGED <<fields, engine, delivered>>
          \/ ~(errorCallback(type) /\ ~warnings)
     /\ \A type \in ErrorTypes :
          \/ /\ wErrorRaised' = IF type = "DEBUG_WARNING" THEN 0 ELSE 1
             /\ UNCHANGED <<wfields, wengine, output>>
          \/ ~(writeErrorCallback(type) /\ ~wWarnings)]_vars

\* The last step was an error report the AudioInputStream surfaced while a
\* frame was waiting in its queue and the warnings were not enabled.
C22_Witness ==
  /\ reported
  /\ errorRaised = 1
  /\ ~warnings
  /\ buffer # <<>>
  /\ received > 0

\* C23 (debug warnings when enabled), as claimed: a DEBUG_WARNING reported
\* to an adapter's error callback makes it emit one 'error' while the
\* warnings are enabled and none while they are not.
C23_DebugWarnings ==
  [][/\ errorCallback("DEBUG_WARNING") => errorRaised' = IF warnings THEN 1 ELSE 0
     /\ writeErrorCallback("DEBUG_WARNING") => wErrorRaised' = IF wWarnings THEN 1 ELSE 0]_vars

\* The callback without the overflow status, run in the same state with the
\* same answer of push, ends with these fields, engine state and deliveries.
C24_WithoutStatus(ok, f, e, d) ==
  ENABLED (Callback(ok, "ok") /\ fields' = f /\ engine' = e /\ delivered' = d)

\* C24 (overflow is advisory): a callback that is neither a clearing step nor
\* on a closed stream and has the overflow status emits 'api:overflow' and
\* leaves the queue, the flags and the deliveries as the same callback
\* without the status leaves them; the engine stream stays open.
C24_OverflowAdvisory ==
  [][\A ok \in BOOLEAN :
        (Callback(ok, "overflow") /\ ~shouldClearBuffer /\ ~closed)
           => /\ overflowRaised'
              /\ streamOpen' = streamOpen
              /\ \E f \in {fields'}, e \in {engine'}, d \in {delivered'} :
                    C24_WithoutStatus(ok, f, e, d)]_vars

\* The last callback reported an overflow, delivered the queue head and
\* queued its own frame.
C24_Witness ==
  /\ overflowRaised
  /\ Len(delivered) >= 2
  /\ buffer # <<>>
  /\ streamOpen

\* C25 (underflow notification is unconditional): a callback of the
\* AudioWriteStream emits 'api:underflow' exactly when its status is the
\* output underflow, whether it output a chunk, found too few bytes on a
\* stream that is not closing, or closed the engine stream.
C25_UnderflowUnconditional ==
  [][\A status \in {"ok", "underflow"} :
        WriteCallback(status) =>
          LET chunk == Len(wBuffer) >= chunkSize /\ chunkSize > 0 IN
          /\ (chunk /\ status = "underflow") => underflowRaised' /\ processedRaised'
          /\ (~chunk /\ ~shouldClose /\ status = "underflow")
                => underflowRaised' /\ closeCalls' = closeCalls
          /\ (~chunk /\ shouldClose /\ status = "underflow")
                => underflowRaised' /\ closeCalls' = closeCalls + 1
          /\ status = "ok" => ~underflowRaised']_vars

\* The callback that closed the engine stream had the underflow status.
C25_Witness ==
  /\ underflowRaised
  /\ ~processedRaised
  /\ closeCalls = 1
  /\ ~wOpen
  /\ output # <<>>

\* The frames delivered so far, followed by the frames in the queue, are the
\* frames received so far, each once and in the order of arrival.
Conserved == delivered \o buffer = [i \in 1..received |-> i]

\* A step of a run that has had and has no stopAudio, pauseAudio,
\* resumeAudio or _destroy.
PlainCaptureStep ==
  /\ ~shouldStop /\ ~shouldClearBuffer /\ ~closed /\ streamRunning
  /\ ~(stopAudio \/ pauseAudio \/ resumeAudio \/ \E error \in Errors : destroy(error))

\* C26 (capture conservation): in a run without stopAudio, pauseAudio,
\* resumeAudio or close, after every step the frames delivered followed by
\* the frames in the queue are exactly the frames received, so that no frame
\* is lost, delivered twice or left in the queue once delivered.
C26_CaptureConservation ==
  /\ Conserved
  /\ [][(Conserved /\ PlainCaptureStep) => Conserved']_vars

\* All the frames of a run have been received without any of these
\* operations: some were delivered and some wait in the queue.
C26_Witness ==
  /\ Conserved
  /\ received = MaxFrames
  /\ Len(delivered) >= 2
  /\ Len(buffer) >= 1
  /\ ~shouldStop /\ ~closed /\ ~shouldClearBuffer /\ streamRunning
  /\ pausedAt = 0 /\ staleUpTo = 0

\* The callback handed the consumer a frame and push answered false.
SaturatedDelivery ==
  /\ \E status \in StreamStatus : Callback(FALSE, status)
  /\ NewlyPushed \ {Null} # {}

\* From a delivery that reports saturation until _read() or resume(),
\* _shouldBuffer is set and no callback hands the consumer a frame.
Backpressure ==
  /\ SaturatedDelivery => (saturated' /\ shouldBuffer')
  /\ (saturated /\ ~(read \/ resume)) => (saturated' /\ shouldBuffer')
  /\ (saturated /\ CallbackStep) => NewlyPushed \subseteq {Null}

\* C27 (backpressure holds), as claimed: after a delivery reports saturation
\* no callback hands the consumer a non-null frame until _read() or
\* resume(), and every frame that arrives in between is appended to the
\* queue tail.
C27_Original ==
  [][/\ Backpressure
     /\ (saturated /\ CallbackStep) => buffer' = Append(buffer, NextFrame)]_vars

\* C27 amended: the frames that arrive in between are appended to the queue
\* tail by the callbacks that are neither stopping, clearing nor on a closed
\* stream; the others drop their frame.
C27_BackpressureHolds ==
  [][/\ Backpressure
     /\ (saturated /\ CallbackStep)
           => IF DropsInput
              THEN NextFrame \notin Range(buffer') \cup NewlyPushed
              ELSE buffer' = Append(buffer, NextFrame)]_vars

\* A delivery reported saturation and the next frame was queued behind it.
C27_Witness ==
  /\ saturated
  /\ shouldBuffer
  /\ ~shouldStop /\ ~closed
  /\ Len(delivered) >= 1
  /\ Len(buffer) >= 1
  /\ buffer[Len(buffer)] = received

\* C28 (pull delivers the queue head first): _read() and resume() clear
\* _shouldBuffer, and a callback that finds it cleared and is neither
\* clearing nor on a closed stream hands the consumer exactly the old queue
\* head, appending its own frame to the tail when not stopping; on an empty
\* queue, when not stopping, it hands the consumer its own frame.
C28_PullDeliversHead ==
  [][/\ (read \/ resume) => (~shouldBuffer' /\ buffer' = buffer /\ delivered' = delivered)
     /\ (CallbackStep /\ ~shouldBuffer /\ ~shouldClearBuffer /\ ~closed)
          => IF buffer # <<>>
             THEN /\ delivered' = Append(delivered, Head(buffer))
                  /\ buffer' = IF shouldStop THEN Tail(buffer)
                               ELSE Append(Tail(buffer), NextFrame)
             ELSE ~shouldStop => (delivered' = Append(delivered, NextFrame) /\ buffer' = <<>>)]_vars

\* The consumer pulled while two frames were queued; the callback after it
\* delivered the older one and queued its own frame behind the other.
C28_Witness ==
  /\ ~shouldStop /\ ~closed
  /\ Len(delivered) = 1
  /\ delivered[1] = 1
  /\ buffer = <<2, 3>>
  /\ received = 3

\* C29 (consumer-side operations change only their flag): _read() and
\* resume() set _shouldBuffer to false, pause() sets it to true, stopAudio()
\* sets _shouldStop to true; each leaves the queue, the other flags and the
\* engine stream as they were and delivers nothing; and no step resets
\* _shouldStop to false.
C29_ConsumerFlags ==
  [][/\ (read \/ resume) => (~shouldBuffer' /\ UNCHANGED <<shouldStop, shouldClearBuffer>>)
     /\ pause => (shouldBuffer' /\ UNCHANGED <<shouldStop, shouldClearBuffer>>)
     /\ stopAudio => (shouldStop' /\ UNCHANGED <<shouldBuffer, shouldClearBuffer>>)
     /\ (read \/ resume \/ pause \/ stopAudio)
           => UNCHANGED <<buffer, closed, streamOpen, streamRunning, delivered>>
     /\ shouldStop => shouldStop']_vars

\* stopAudio() was called on a running stream with a ready consumer and
\* frames queued: the queue is as stopAudio() found it and nothing has been
\* delivered since.
C29_Witness ==
  /\ shouldStop
  /\ ~shouldBuffer
  /\ streamRunning
  /\ Len(stopQueue) >= 2
  /\ buffer = stopQueue
  /\ Len(delivered) + Len(buffer) = received

C31_SentinelPosition ==
  /\ NullCount(buffer) <= 1
  /\ Null \in Range(buffer) => buffer[Len(buffer)] = Null

\* C32 (frames after stop are discarded): a callback that runs after
\* stopAudio() neither queues nor delivers its frame and adds no frame to
\* the queue; what it delivers is an element the queue already held, or
\* null when the queue is empty.
C32_FramesAfterStop ==
  [][(CallbackStep /\ shouldStop)
        => /\ NextFrame \notin Range(buffer') \cup NewlyPushed
           /\ Range(buffer') \ {Null} \subseteq Range(buffer)
           /\ NewlyPushed \subseteq
                 Range(buffer) \cup (IF buffer = <<>> THEN {Null} ELSE {})]_vars

\* stopAudio() found frames queued; callbacks after it delivered them and
\* then null, and their own frames are nowhere.
C32_Witness ==
  /\ shouldStop
  /\ ~closed
  /\ ~flushedSinceStop
  /\ Len(stopQueue) >= 2
  /\ Frames(delivered) = stopQueue
  /\ Null \in Range(delivered)
  /\ received >= Len(stopQueue) + 3

\* C33 (re-entrant pause is preserved): when the consumer calls pause() from
\* inside the delivery a callback makes, _shouldBuffer is true when that
\* callback returns; a callback that then finds it true and handles its
\* frame queues the frame and delivers nothing; and no callback changes
\* _shouldBuffer from true to false.
C33_ReentrantPause ==
  [][/\ ~shouldBuffer' => ~CallbackPausedStep
     /\ (shouldBuffer /\ ~DropsInput /\ CallbackStep)
           => (buffer' = Append(buffer, NextFrame) /\ delivered' = delivered)
     /\ (shouldBuffer /\ ~shouldBuffer') => ~(CallbackStep \/ CallbackPausedStep)]_vars

\* The consumer paused from inside the delivery of frame 1, to which push
\* had answered true, and the callback after it queued frame 2.
C33_Witness ==
  /\ reentered
  /\ delivered = <<1>>
  /\ buffer = <<2>>
  /\ shouldBuffer
  /\ satCount = 1
  /\ ~shouldStop /\ ~closed /\ streamRunning

\* C34 (capture teardown): _destroy(error) of the AudioInputStream issues
\* closeStream exactly when the engine stream is open and invokes its
\* callback with error in the same call; closeStream is issued at most once
\* in a run (only on an open stream, which it closes for good); and a
\* callback on a closed AudioInputStream delivers nothing and emits no
\* 'api:overflow'.
C34_CaptureTeardown ==
  [][/\ \A error \in Errors :
          \/ /\ issued' = IF streamOpen THEN <<"closeStream">> ELSE <<>>
             /\ destroyCb' = <<error>>
          \/ ~destroy(error)
     /\ "closeStream" \in Range(issued') => (streamOpen /\ ~streamOpen')
     /\ ~streamOpen => ~streamOpen'
     /\ (closed /\ CallbackStep) => (delivered' = delivered /\ ~overflowRaised')]_vars

\* The last step was _destroy("E1") on an open stream with a frame queued
\* and one delivered: it closed the stream and invoked its callback.
C34_Witness ==
  /\ traced
  /\ issued = <<"closeStream">>
  /\ destroyCb = <<"E1">>
  /\ closed
  /\ ~streamOpen
  /\ buffer # <<>>
  /\ delivered # <<>>

\* The bytes of the chunks written so far while the stream was running, in
\* the order of the calls.
WrittenWhileRunning ==
  SelectSeq([i \in 1..written |-> i], LAMBDA b : b \notin dropped)

\* C35 (playback stream order and slice size): the bytes copied to the
\* output buffers so far, followed by the accumulator, are the bytes of the
\* chunks written while the stream was running, in call order; and a
\* callback that finds at least chunkSize bytes removes exactly the first
\* chunkSize of them, copies them to its output buffer and emits one
\* 'api:processed'.
C35_StreamOrder ==
  /\ [](output \o wBuffer = WrittenWhileRunning)
  /\ [][(Len(wBuffer) >= chunkSize /\ WriteCallbackStep)
          => /\ wBuffer' = SubSeq(wBuffer, chunkSize + 1, Len(wBuffer))
             /\ output' = output \o SubSeq(wBuffer, 1, chunkSize)
             /\ processedRaised']_vars

\* Two full chunks were output, bytes are left in the accumulator of the
\* running stream, and everything written is in one of the two.
C35_Witness ==
  /\ wRunning
  /\ Len(output) >= 2 * chunkSize
  /\ wBuffer # <<>>
  /\ written = 20
  /\ Len(output) + Len(wBuffer) = written

\* C36 (silent underflow leaves the state unchanged): a callback that finds
\* fewer than chunkSize bytes while _shouldClose is false copies nothing to
\* the output, emits no 'api:processed', leaves the accumulator and
\* _shouldClose as they were and the engine stream open and running.
C36_SilentUnderflow ==
  [][(~shouldClose /\ Len(wBuffer) < chunkSize /\ WriteCallbackStep)
        => /\ output' = output
           /\ ~processedRaised'
           /\ wBuffer' = wBuffer
           /\ ~shouldClose'
           /\ wOpen' /\ wRunning'
           /\ closeCalls' = closeCalls]_vars

\* The last step was a callback with the underflow status that found fewer
\* than chunkSize bytes left, after chunks had been output, on a stream that
\* is not closing.
C36_Witness ==
  /\ underflowRaised
  /\ ~processedRaised
  /\ ~shouldClose
  /\ wBuffer # <<>>
  /\ Len(wBuffer) < chunkSize
  /\ output # <<>>
  /\ wOpen /\ wRunning

\* C37 (single close path on playback), as claimed: the AudioWriteStream
\* issues closeStream only in a callback that finds _shouldClose set and
\* fewer than chunkSize bytes in the accumulator; _destroy and _final issue
\* none; and in a whole run closeStream is issued at most once.
C37_SingleClosePath ==
  /\ [](closeCalls <= 1)
  /\ [][/\ closeCalls' # closeCalls
             => (shouldClose /\ Len(wBuffer) < chunkSize /\ WriteCallbackStep)
        /\ (final \/ \E error \in Errors : writeDestroy(error))
             => closeCalls' = closeCalls]_vars

\* C38 (finish only marks closing): _final sets _shouldClose, invokes its
\* callback at once, issues no engine command and leaves the accumulator,
\* _destroyCallback and _destroyError as they were; a later callback that
\* finds a full chunk still outputs it and does not close the stream; and no
\* step resets _shouldClose to false.
C38_FinishMarksClosing ==
  [][/\ final => /\ shouldClose' /\ lastWrite' = "final"
                 /\ UNCHANGED <<wBuffer, destroyCallback, destroyError>>
                 /\ UNCHANGED <<wengine, closeCalls, output, destroyDone>>
     /\ (shouldClose /\ Len(wBuffer) >= chunkSize /\ WriteCallbackStep)
           => /\ output' = output \o SubSeq(wBuffer, 1, chunkSize)
              /\ closeCalls' = closeCalls
              /\ wOpen' = wOpen
     /\ shouldClose => shouldClose']_vars

\* _final was called with full chunks in the accumulator; the last step was
\* a callback that output one of them, another is left and the stream is
\* still open and running.
C38_Witness ==
  /\ lastWrite = "final"
  /\ shouldClose
  /\ destroyCalls = 0
  /\ processedRaised
  /\ Len(wBuffer) >= chunkSize
  /\ wOpen /\ wRunning
  /\ closeCalls = 0

\* C39 (re-entrant write is not lost): when the consumer writes a chunk from
\* inside the 'api:processed' a callback emits, the accumulator after the
\* callback is what was left once the callback's slice was removed, followed
\* by the bytes of that chunk, and the slice is copied to the output.
C39_ReentrantWrite ==
  [][\A status \in {"ok", "underflow"}, n \in WriteSizes :
        WriteCallbackWriting(status, n)
          => /\ wBuffer' = SubSeq(wBuffer, chunkSize + 1, Len(wBuffer)) \o Bytes(n)
             /\ output' = output \o SubSeq(wBuffer, 1, chunkSize)]_vars

\* Ten bytes were written; the last step was a callback that output the
\* first eight and during which the consumer wrote five more: the
\* accumulator holds bytes 9 and 10 and then the five new ones.
C39_Witness ==
  /\ reentered
  /\ processedRaised
  /\ taken = <<>>
  /\ output = <<1, 2, 3, 4, 5, 6, 7, 8>>
  /\ wBuffer = <<9, 10, 11, 12, 13, 14, 15>>
  /\ written = 15

=============================================================================
